---- MODULE Spec2Model ----
(***************************************************************************)
(* Model of youtube_data_collector.py: the search paginator                *)
(* (search_videos_by_genre), the transcript fetcher (get_video_captions),  *)
(* the detail enricher (get_video_details) and the orchestrator            *)
(* (collect_data) of YouTubeDataCollector.                                 *)
(*                                                                         *)
(* The remote collaborators are the environment.  The search collaborator  *)
(* holds `avail` identifiers, VideoId(1) .. VideoId(avail), spread over    *)
(* its pages; a page is the slice that starts at the position named by the *)
(* cursor of the request and never carries more identifiers than the       *)
(* request asked for; a page omits its cursor only when nothing is left    *)
(* after it.  Exceptions are values: "HttpError" is                        *)
(* googleapiclient.errors.HttpError, "Exception" is any other subclass of  *)
(* Exception (socket timeout, KeyError, parse error ...).                  *)
(***************************************************************************)
EXTENDS Integers, Sequences, FiniteSets, TLC

\* ---------------------------------------------------------------- bounds
MaxResults == 104
MaxAvail == 103
MaxSearchCalls == 5
MaxN == 101
MaxAvailRun == 52

\* ----------------------------------------------------- program constants
SearchPageSize == 50
BatchSize == 50
DefaultMaxResults == 500
NoToken == -1

ErrorKinds == {"HttpError", "Exception"}
CallOutcomes == {"items", "nokey"} \cup ErrorKinds

\* Inputs of the details runs: the identifier whose metadata is malformed
\* (0: none) and the identifier the details collaborator no longer knows
\* (0: none).
BadIds == {0, 1, 2, 51}
GoneIds == {0, 3}

VARIABLES
    pc,               \* position of the running function
    max_results,      \* parameter of search_videos_by_genre
    avail,            \* environment: identifiers the search collaborator holds
    badId,            \* environment: identifier with malformed metadata
    goneId,           \* environment: identifier the details collaborator omits
    video_ids,        \* search_videos_by_genre: accumulated identifiers
    next_page_token,  \* search_videos_by_genre: page cursor
    searchCalls,      \* number of search calls issued
    lastReq,          \* the last search request: page size and cursor
    lastResp,         \* the last search response: outcome, count, cursor
    delivered,        \* identifiers delivered by the pages so far, in order
    searchFailed,     \* kind of the failure of a search call, "none" if none
    searchRet,        \* return value of search_videos_by_genre
    detail_ids,       \* parameter of get_video_details
    batch_start,      \* get_video_details: loop variable i
    video_data,       \* get_video_details: accumulated records
    batchLog,         \* one entry per details call issued
    sleeps,           \* number of time.sleep(0.1) executed
    detailsRet,       \* return value of get_video_details
    escapedFrom,      \* functions an exception propagated out of
    message,          \* last user-visible message of collect_data
    fileWrites,       \* number of to_csv calls
    fileRows          \* rows of the file written, -1 if none

vars == <<pc, max_results, avail, badId, goneId, video_ids, next_page_token,
          searchCalls, lastReq, lastResp, delivered, searchFailed, searchRet,
          detail_ids, batch_start, video_data, batchLog, sleeps, detailsRet,
          escapedFrom, message, fileWrites, fileRows>>

searchVars == <<video_ids, next_page_token, searchCalls, lastReq, lastResp,
                delivered, searchFailed, searchRet>>
detailVars == <<detail_ids, batch_start, video_data, batchLog, sleeps,
                detailsRet>>
envVars == <<max_results, avail, badId, goneId>>
runVars == <<message, fileWrites, fileRows>>

Min(a, b) == IF a < b THEN a ELSE b

\* ------------------------------------------------------------ environment
\* The i-th identifier of the search collaborator's result set.  Every tenth
\* one repeats its predecessor: the platform may return the same identifier
\* twice.
VideoId(n) == IF n % 10 = 0 THEN n - 1 ELSE n

Catalog(n) == [j \in 1..n |-> VideoId(j)]

\* The items of a page of k identifiers that starts after position pos.
PageItems(pos, k) == [j \in 1..k |-> VideoId(pos + j)]

\* The position a request with this pageToken is served from.
ServedFrom(token) == IF token = NoToken THEN 0 ELSE token

\* Page lengths the collaborator may answer with: a full page, a page one
\* short, an empty page.
PageCounts(size, rest) ==
    LET m == Min(size, rest) IN {0, m} \cup (IF m > 1 THEN {m - 1} ELSE {})

\* ------------------------------------------------ search_videos_by_genre
\* Faulty variant of RequestSize: the page size is not capped at 50.
RequestSizeUncapped(max, have) == max - have

\* maxResults of the request (line 42).
RequestSize(max, have) == Min(SearchPageSize, max - have)

\* Faulty variant of AppendItems: identifiers already collected are dropped.
AppendNewItems(ids, items) ==
    ids \o SelectSeq(items, LAMBDA x : \A j \in 1..Len(ids) : ids[j] # x)

\* The for loop of lines 52-54.
AppendItems(ids, items) == ids \o items

\* except HttpError (line 67)
InnerSearchHandles(kind) == kind = "HttpError"

\* except Exception (line 77)
OuterSearchHandles(kind) == kind \in {"HttpError", "Exception"}

\* The body of the inner try for a response that arrived (lines 51-65):
\* the identifiers, the cursor and where control goes next.
AfterPage(ids, token, max, resp) ==
    IF resp.outcome = "items"
    THEN LET ids2 == AppendItems(ids, resp.items) IN
         IF Len(ids2) >= max
         THEN [ids |-> ids2, token |-> token, ctl |-> "break"]
         ELSE IF resp.cursor = NoToken
              THEN [ids |-> ids2, token |-> NoToken, ctl |-> "break"]
              ELSE [ids |-> ids2, token |-> resp.cursor, ctl |-> "loop"]
    ELSE [ids |-> ids, token |-> token, ctl |-> "break"]

\* Where a failed search call leaves the function (lines 67-71, 77-79).
AfterSearchError(kind) ==
    IF InnerSearchHandles(kind) THEN "break"
    ELSE IF OuterSearchHandles(kind) THEN "return_empty"
    ELSE "raise"

\* One iteration of the while loop of line 36: the request, the response
\* and what the code does with it.
SearchPage ==
    /\ pc = "search_loop"
    /\ Len(video_ids) < max_results
    /\ searchCalls < MaxSearchCalls
    /\ LET size == RequestSize(max_results, Len(video_ids))
           pos == ServedFrom(next_page_token)
       IN
       \E outcome \in CallOutcomes, k \in PageCounts(size, avail - pos),
          more \in BOOLEAN :
          /\ outcome = "items" => (~more => pos + k = avail)
          /\ outcome = "nokey" => (k = 0 /\ ~more /\ pos = avail)
          /\ outcome \in ErrorKinds => (k = 0 /\ ~more)
          /\ searchCalls' = searchCalls + 1
          /\ lastReq' = [size |-> size, token |-> next_page_token]
          /\ LET resp == [outcome |-> outcome,
                          items |-> PageItems(pos, k),
                          cursor |-> IF more THEN pos + k ELSE NoToken]
             IN
             /\ lastResp' = [outcome |-> outcome, count |-> k,
                             cursor |-> resp.cursor]
             /\ IF outcome \in ErrorKinds
                THEN /\ searchFailed' = outcome
                     /\ delivered' = delivered
                     /\ video_ids' = video_ids
                     /\ next_page_token' = next_page_token
                     /\ LET ctl == AfterSearchError(outcome) IN
                        /\ pc' = IF ctl = "break" THEN "search_exit"
                                 ELSE "search_done"
                        /\ searchRet' = IF ctl = "return_empty" THEN <<>>
                                        ELSE searchRet
                        /\ escapedFrom' =
                             IF ctl = "raise"
                             THEN escapedFrom \cup {"search_videos_by_genre"}
                             ELSE escapedFrom
                ELSE LET r == AfterPage(video_ids, next_page_token,
                                        max_results, resp) IN
                     /\ searchFailed' = searchFailed
                     /\ delivered' = delivered \o resp.items
                     /\ video_ids' = r.ids
                     /\ next_page_token' = r.token
                     /\ pc' = IF r.ctl = "loop" THEN "search_loop"
                              ELSE "search_exit"
                     /\ searchRet' = searchRet
                     /\ escapedFrom' = escapedFrom
    /\ UNCHANGED <<envVars, detailVars, runVars>>

\* The end of the while loop and lines 73-75.
SearchReturn ==
    /\ (pc = "search_exit"
        \/ (pc = "search_loop" /\ ~(Len(video_ids) < max_results)))
    /\ searchRet' = video_ids
    /\ pc' = "search_done"
    /\ UNCHANGED <<envVars, video_ids, next_page_token, searchCalls, lastReq,
                   lastResp, delivered, searchFailed, detailVars, runVars,
                   escapedFrom>>

\* ---------------------------------------------------- get_video_captions
\* Environment: what the transcript collaborator does for an identifier.
\* list_transcripts raises (line 86).
TranscriptListFails(id) == id % 4 = 0

\* find_transcript(["en"]) finds a track (line 89).
HasEnglish(id) == id % 4 = 1

\* The fallback of lines 90-92 raises: find_manually_created_transcript is
\* called without the language codes it requires, a TypeError whatever
\* tracks the video has.
FindManualRaises(id) == TRUE

\* fetch raises (line 94).
FetchFails(id) == id % 8 = 5

\* The text fields of the caption segments fetch returns (line 94).
Segments(id) ==
    IF id % 3 = 0 THEN <<>>
    ELSE IF id % 3 = 1 THEN <<"a">>
    ELSE <<"a", "b">>

\* " ".join(...) of line 96.
RECURSIVE JoinSpace(_)
JoinSpace(segs) ==
    IF Len(segs) = 0 THEN ""
    ELSE IF Len(segs) = 1 THEN segs[1]
    ELSE segs[1] \o " " \o JoinSpace(Tail(segs))

\* Faulty variant of CaptionsOnError: the exception is not absorbed.
CaptionsOnErrorRaises ==
    [raised |-> "Exception", has |-> FALSE, text |-> ""]

\* except Exception: return False, "" (lines 98-99).
CaptionsOnError == [raised |-> "none", has |-> FALSE, text |-> ""]

\* get_video_captions (lines 81-99): the exception that leaves it ("none"
\* when it returns), and the pair it returns.
get_video_captions(id) ==
    IF TranscriptListFails(id) THEN CaptionsOnError
    ELSE IF ~HasEnglish(id) /\ FindManualRaises(id) THEN CaptionsOnError
    ELSE IF FetchFails(id) THEN CaptionsOnError
    ELSE [raised |-> "none", has |-> TRUE, text |-> JoinSpace(Segments(id))]

\* ----------------------------------------------------- get_video_details
\* Environment: the item of this identifier lacks a field the record needs,
\* or carries a duration isodate cannot parse (lines 128-149 raise).
Malformed(id) == badId # 0 /\ id = badId

\* Environment: the items of a details response for a batch, in the order of
\* the batch; an identifier the platform no longer knows has no item.
DetailsItems(batch) == SelectSeq(batch, LAMBDA x : x # goneId)

\* Faulty variant of BatchIds: the slice runs one identifier too far.
BatchIdsOverlapping(ids, i) ==
    SubSeq(ids, i + 1, Min(i + BatchSize + 1, Len(ids)))

\* batch_ids = video_ids[i : i + 50] (line 113), i counted from 0.
BatchIds(ids, i) == SubSeq(ids, i + 1, Min(i + BatchSize, Len(ids)))

\* The record of lines 128-149, reduced to the fields that depend on the
\* identifier and on the captions.
VideoInfo(id, cap) ==
    [id |-> id, captions |-> cap.has,
     text |-> IF cap.has THEN cap.text ELSE ""]

\* The exception processing one item of a response raises (lines 123-151):
\* one that left get_video_captions, or the one a malformed item causes;
\* "none" when the record is built and appended.
ItemRaises(id) ==
    IF get_video_captions(id).raised # "none"
    THEN get_video_captions(id).raised
    ELSE IF Malformed(id) THEN "Exception" ELSE "none"

\* The index of the first item whose processing raises, Len(items) + 1 when
\* none does.
FirstRaising(items) ==
    IF \E j \in 1..Len(items) : ItemRaises(items[j]) # "none"
    THEN CHOOSE j \in 1..Len(items) :
           /\ ItemRaises(items[j]) # "none"
           /\ \A h \in 1..(j - 1) : ItemRaises(items[h]) = "none"
    ELSE Len(items) + 1

\* The for loop of lines 122-151: records are appended one by one, in the
\* order of the items, until an item raises; what was appended stays.
ProcessItems(data, items) ==
    LET stop == FirstRaising(items) IN
    [data |-> data \o [j \in 1..(stop - 1) |->
                         VideoInfo(items[j], get_video_captions(items[j]))],
     raised |-> IF stop > Len(items) THEN "none" ELSE ItemRaises(items[stop]),
     capRaised |-> /\ stop <= Len(items)
                   /\ get_video_captions(items[stop]).raised # "none"]

\* except Exception (line 153)
InnerDetailsHandles(kind) == kind \in {"HttpError", "Exception"}

\* except Exception (line 163)
OuterDetailsHandles(kind) == kind \in {"HttpError", "Exception"}

\* Where a failed batch leaves the loop (lines 153-155, 163-165).
AfterBatchError(kind) ==
    IF InnerDetailsHandles(kind) THEN "continue"
    ELSE IF OuterDetailsHandles(kind) THEN "return_empty"
    ELSE "raise"

\* One iteration of the for loop of line 112: the details call, the records
\* of its items, the handler, the delay of line 158.
DetailBatch ==
    /\ pc = "details_loop"
    /\ batch_start < Len(detail_ids)
    /\ \E outcome \in CallOutcomes :
         LET batch == BatchIds(detail_ids, batch_start)
             r == IF outcome \in ErrorKinds
                  THEN [data |-> video_data, raised |-> outcome,
                        capRaised |-> FALSE]
                  ELSE IF outcome = "nokey"
                       THEN [data |-> video_data, raised |-> "none",
                             capRaised |-> FALSE]
                       ELSE ProcessItems(video_data, DetailsItems(batch))
             ctl == IF r.raised = "none" THEN "sleep"
                    ELSE AfterBatchError(r.raised)
         IN
         /\ batchLog' = Append(batchLog,
                 [ids |-> batch, outcome |-> outcome, raised |-> r.raised,
                  at |-> Len(video_data),
                  added |-> Len(r.data) - Len(video_data),
                  slept |-> (ctl = "sleep")])
         /\ video_data' = r.data
         /\ sleeps' = sleeps + (IF ctl = "sleep" THEN 1 ELSE 0)
         /\ IF ctl \in {"sleep", "continue"}
            THEN /\ batch_start' = batch_start + BatchSize
                 /\ pc' = "details_loop"
                 /\ detailsRet' = detailsRet
            ELSE /\ batch_start' = batch_start
                 /\ pc' = "details_done"
                 /\ detailsRet' = <<>>
         /\ escapedFrom' =
              escapedFrom
              \cup (IF r.capRaised THEN {"get_video_captions"} ELSE {})
              \cup (IF ctl = "raise" THEN {"get_video_details"} ELSE {})
    /\ UNCHANGED <<envVars, searchVars, detail_ids, runVars>>

\* The end of the for loop and lines 160-161.
DetailsReturn ==
    /\ pc = "details_loop"
    /\ ~(batch_start < Len(detail_ids))
    /\ detailsRet' = video_data
    /\ pc' = "details_done"
    /\ UNCHANGED <<envVars, searchVars, detail_ids, batch_start, video_data,
                   batchLog, sleeps, runVars, escapedFrom>>

\* ------------------------------------------------- __init__, collect_data
\* __init__ (lines 14-21): build() fails, the handler prints and re-raises.
Construct ==
    /\ pc = "init"
    /\ \E outcome \in {"ok", "Exception"} :
         IF outcome = "ok"
         THEN pc' = "run_start" /\ escapedFrom' = escapedFrom
         ELSE pc' = "init_failed" /\ escapedFrom' = escapedFrom \cup {"__init__"}
    /\ UNCHANGED <<envVars, searchVars, detailVars, runVars>>

\* Faulty variant of TopHandles: collect_data has no handler.
TopHandlesNothing(kind) == FALSE

\* except Exception (line 212)
TopHandles(kind) == kind \in {"HttpError", "Exception"}

\* collect_data up to the search call (lines 171-180): os.makedirs, then
\* search_videos_by_genre(genre) with the default max_results.
CollectStart ==
    /\ pc = "run_start"
    /\ \E outcome \in {"ok", "Exception"} :
         IF outcome = "ok"
         THEN /\ pc' = "search_loop"
              /\ UNCHANGED <<message, escapedFrom>>
         ELSE IF TopHandles(outcome)
              THEN /\ pc' = "run_done"
                   /\ message' = "Error in collect_data"
                   /\ escapedFrom' = escapedFrom
              ELSE /\ pc' = "run_done"
                   /\ message' = message
                   /\ escapedFrom' = escapedFrom \cup {"collect_data"}
    /\ UNCHANGED <<envVars, searchVars, detailVars, fileWrites, fileRows>>

\* collect_data from the return of the search to the details call
\* (lines 180-187).
CollectAfterSearch ==
    /\ pc = "search_done"
    /\ IF "search_videos_by_genre" \in escapedFrom
       THEN /\ pc' = "run_done"
            /\ detail_ids' = detail_ids
            /\ IF TopHandles(searchFailed)
               THEN /\ message' = "Error in collect_data"
                    /\ escapedFrom' = escapedFrom
               ELSE /\ message' = message
                    /\ escapedFrom' = escapedFrom \cup {"collect_data"}
       ELSE IF Len(searchRet) = 0
            THEN /\ pc' = "run_done"
                 /\ message' = "No videos found!"
                 /\ UNCHANGED <<detail_ids, escapedFrom>>
            ELSE /\ pc' = "details_loop"
                 /\ detail_ids' = searchRet
                 /\ UNCHANGED <<message, escapedFrom>>
    /\ UNCHANGED <<envVars, searchVars, batch_start, video_data, batchLog,
                   sleeps, detailsRet, fileWrites, fileRows>>

\* Faulty variant of HasRecords: the empty check is missing.
HasRecordsAlways(data) == TRUE

\* Whether collect_data goes on to write the file (line 189).
HasRecords(data) == Len(data) > 0

\* collect_data from the return of the details to its end (lines 187-213):
\* the empty check, to_csv, the report.
CollectAfterDetails ==
    /\ pc = "details_done"
    /\ pc' = "run_done"
    /\ IF "get_video_details" \in escapedFrom
       THEN /\ UNCHANGED <<fileWrites, fileRows>>
            /\ IF TopHandles("Exception")
               THEN /\ message' = "Error in collect_data"
                    /\ escapedFrom' = escapedFrom
               ELSE /\ message' = message
                    /\ escapedFrom' = escapedFrom \cup {"collect_data"}
       ELSE IF ~HasRecords(detailsRet)
            THEN /\ message' = "No video details could be retrieved!"
                 /\ UNCHANGED <<fileWrites, fileRows, escapedFrom>>
            ELSE \E outcome \in {"ok", "Exception"} :
                   /\ fileWrites' = fileWrites + 1
                   /\ IF outcome = "ok"
                      THEN /\ fileRows' = Len(detailsRet)
                           /\ message' = "Data collection completed!"
                           /\ escapedFrom' = escapedFrom
                      ELSE /\ fileRows' = fileRows
                           /\ IF TopHandles(outcome)
                              THEN /\ message' = "Error in collect_data"
                                   /\ escapedFrom' = escapedFrom
                              ELSE /\ message' = message
                                   /\ escapedFrom' =
                                        escapedFrom \cup {"collect_data"}
    /\ UNCHANGED <<envVars, searchVars, detailVars>>

\* ----------------------------------------------------------------- states
InitCommon ==
    /\ video_ids = <<>>
    /\ next_page_token = NoToken
    /\ searchCalls = 0
    /\ lastReq = [size |-> 0, token |-> NoToken]
    /\ lastResp = [outcome |-> "none", count |-> 0, cursor |-> NoToken]
    /\ delivered = <<>>
    /\ searchFailed = "none"
    /\ searchRet = <<>>
    /\ batch_start = 0
    /\ video_data = <<>>
    /\ batchLog = <<>>
    /\ sleeps = 0
    /\ detailsRet = <<>>
    /\ escapedFrom = {}
    /\ message = ""
    /\ fileWrites = 0
    /\ fileRows = -1

\* search_videos_by_genre called on its own, with any max_results.
InitSearch ==
    /\ InitCommon
    /\ pc = "search_loop"
    /\ max_results \in -1..MaxResults
    /\ avail \in 0..MaxAvail
    /\ badId = 0
    /\ goneId = 0
    /\ detail_ids = <<>>

NextSearch == SearchPage \/ SearchReturn

SpecSearch == InitSearch /\ [][NextSearch]_vars

\* get_video_details called on its own, with any list of identifiers.
InitDetails ==
    /\ InitCommon
    /\ pc = "details_loop"
    /\ max_results = DefaultMaxResults
    /\ avail = 0
    /\ badId \in BadIds
    /\ goneId \in GoneIds
    /\ \E n \in 0..MaxN : detail_ids = Catalog(n)

NextDetails == DetailBatch \/ DetailsReturn

SpecDetails == InitDetails /\ [][NextDetails]_vars

\* A collector is constructed and collect_data(genre) runs once.
Init ==
    /\ InitCommon
    /\ pc = "init"
    /\ max_results = DefaultMaxResults
    /\ avail \in 0..MaxAvailRun
    /\ badId \in BadIds
    /\ goneId \in GoneIds
    /\ detail_ids = <<>>

Next ==
    \/ Construct
    \/ CollectStart
    \/ SearchPage
    \/ SearchReturn
    \/ CollectAfterSearch
    \/ DetailBatch
    \/ DetailsReturn
    \/ CollectAfterDetails

Spec == Init /\ [][Next]_vars

\* ================================================================ claims
Ceil(n, d) == (n + d - 1) \div d

\* C1: when no search call failed and max_results >= 1, search_videos_by_genre
\* returns exactly the first min(max_results, avail) identifiers the
\* collaborator holds, in the order its pages delivered them, duplicates
\* included.
C1_ResultIsFirstMinIds ==
    (pc = "search_done" /\ searchFailed = "none" /\ max_results >= 1)
    => /\ Len(searchRet) = Min(max_results, avail)
       /\ searchRet = Catalog(Min(max_results, avail))
       /\ searchRet = delivered

\* C1 witness: three pages, more identifiers available than asked for, and a
\* repeated identifier among those returned.
C1_Witness ==
    /\ pc = "search_done"
    /\ searchFailed = "none"
    /\ searchCalls >= 3
    /\ max_results > 2 * SearchPageSize
    /\ avail > max_results
    /\ Len(searchRet) = max_results
    /\ searchRet[9] = searchRet[10]

\* C2 (as claimed): after a failed search call, of any kind, the function has
\* issued no further call, raised nothing and returned exactly what the
\* earlier pages delivered.
C2_PartialResultOnAnyFailure ==
    (pc = "search_done" /\ searchFailed # "none")
    => /\ lastResp.outcome = searchFailed
       /\ "search_videos_by_genre" \notin escapedFrom
       /\ searchRet = delivered

\* C3 (as claimed): the loop has stopped after every page that reached
\* max_results, carried no cursor, carried no items, or failed; one call
\* only when the first page has no cursor.
C3_StopsOnEveryStopCondition ==
    (/\ lastResp.outcome # "none"
     /\ \/ Len(video_ids) >= max_results
        \/ lastResp.cursor = NoToken
        \/ lastResp.count = 0
        \/ lastResp.outcome \in ErrorKinds)
    => pc # "search_loop"

\* C4 (as claimed): a batch whose processing failed leaves no record in the
\* result, and every later batch is still requested.
C4_FailedBatchLeavesNoRecord ==
    /\ \A k \in 1..Len(batchLog) :
         batchLog[k].raised # "none" => batchLog[k].added = 0
    /\ pc = "details_done"
       => Len(batchLog) = Ceil(Len(detail_ids), BatchSize)

\* The transcript of this identifier cannot be had: listing, track selection
\* or fetch fails.
TranscriptFails(id) ==
    \/ TranscriptListFails(id)
    \/ ~HasEnglish(id)
    \/ FetchFails(id)

\* The number of items of a response before its first malformed item.
SoundPrefix(items) ==
    IF \E j \in 1..Len(items) : Malformed(items[j])
    THEN (CHOOSE j \in 1..Len(items) :
            /\ Malformed(items[j])
            /\ \A h \in 1..(j - 1) : ~Malformed(items[h])) - 1
    ELSE Len(items)

\* C5: no exception leaves get_video_captions; a batch whose call returned
\* items appends one record for each item up to its first malformed one,
\* whatever the transcripts did; the record of an item whose transcript
\* failed has Captions Available = False and Caption Text = ""; in every
\* record, Captions Available = False implies Caption Text = "".
C5_TranscriptFailureKeepsRecord ==
    /\ "get_video_captions" \notin escapedFrom
    /\ \A k \in 1..Len(batchLog) :
         batchLog[k].outcome = "items"
         => LET items == DetailsItems(batchLog[k].ids) IN
            /\ batchLog[k].added = SoundPrefix(items)
            /\ batchLog[k].at + batchLog[k].added <= Len(video_data)
            /\ \A j \in 1..batchLog[k].added :
                 LET rec == video_data[batchLog[k].at + j] IN
                 /\ rec.id = items[j]
                 /\ TranscriptFails(items[j])
                    => (rec.captions = FALSE /\ rec.text = "")
    /\ \A j \in 1..Len(video_data) :
         video_data[j].captions = FALSE => video_data[j].text = ""

\* C5 witness: the result holds records of items whose transcript listing
\* failed, whose track selection failed and whose fetch failed.
C5_Witness ==
    /\ pc = "details_done"
    /\ \E j \in 1..Len(detailsRet) :
         TranscriptListFails(detailsRet[j].id) /\ ~detailsRet[j].captions
    /\ \E j \in 1..Len(detailsRet) :
         /\ ~TranscriptListFails(detailsRet[j].id)
         /\ ~HasEnglish(detailsRet[j].id)
         /\ ~detailsRet[j].captions
    /\ \E j \in 1..Len(detailsRet) :
         /\ HasEnglish(detailsRet[j].id)
         /\ FetchFails(detailsRet[j].id)
         /\ ~detailsRet[j].captions
    /\ \E j \in 1..Len(detailsRet) : detailsRet[j].captions

\* C6: to_csv is called at most once, only when the search returned
\* identifiers, the last batch has been processed and the enrichment returned
\* records; a run whose search returned nothing never calls the details
\* collaborator, and a search that fails on its first call ends in
\* "No videos found!".
C6_NoFileWithoutRecords ==
    /\ fileWrites <= 1
    /\ fileWrites = 1
       => /\ pc = "run_done"
          /\ Len(searchRet) > 0
          /\ Len(detailsRet) > 0
          /\ batch_start >= Len(detail_ids)
          /\ Len(batchLog) = Ceil(Len(detail_ids), BatchSize)
    /\ fileRows # -1 => fileWrites = 1
    /\ (pc = "run_done" /\ message = "No videos found!")
       => (Len(batchLog) = 0 /\ fileWrites = 0)
    /\ (pc = "run_done" /\ message = "No video details could be retrieved!")
       => fileWrites = 0
    /\ (pc \in {"details_loop", "details_done"}) => Len(searchRet) > 0
    /\ (pc = "run_done" /\ searchCalls = 1 /\ searchFailed # "none")
       => (message = "No videos found!" /\ fileWrites = 0)

\* C6 witness: the search returned identifiers, every details call was
\* issued, no record came back, and the run ended without a file.
C6_Witness ==
    /\ pc = "run_done"
    /\ Len(searchRet) > BatchSize
    /\ Len(batchLog) = 2
    /\ Len(detailsRet) = 0
    /\ message = "No video details could be retrieved!"
    /\ fileWrites = 0

\* C7: an exception leaves the constructor only; none leaves
\* search_videos_by_genre, get_video_captions, get_video_details or
\* collect_data, whatever the collaborators do.
C7_OnlyInitPropagates ==
    /\ escapedFrom \subseteq {"__init__"}
    /\ "__init__" \in escapedFrom <=> pc = "init_failed"

\* C7 witness: a run in which a search call, a details call and the file
\* writer all failed, and collect_data returned.
C7_Witness ==
    /\ pc = "run_done"
    /\ escapedFrom = {}
    /\ searchFailed = "HttpError"
    /\ \E k \in 1..Len(batchLog) : batchLog[k].outcome = "Exception"
    /\ fileWrites = 1
    /\ fileRows = -1
    /\ message = "Error in collect_data"

\* C8: the k-th details call carries ids[50(k-1) .. min(50k, n)-1] (counted
\* from 0), at most 50 identifiers, and when the loop is over exactly
\* ceil(n/50) calls were issued, failed or not.
C8_BatchesAreConsecutiveSlices ==
    /\ \A k \in 1..Len(batchLog) :
         /\ batchLog[k].ids =
              SubSeq(detail_ids, BatchSize * (k - 1) + 1,
                     Min(BatchSize * k, Len(detail_ids)))
         /\ Len(batchLog[k].ids) \in 1..BatchSize
    /\ pc = "details_done"
       => Len(batchLog) = Ceil(Len(detail_ids), BatchSize)

\* C8 witness: three batches, the last one short, one of them failed.
C8_Witness ==
    /\ pc = "details_done"
    /\ Len(batchLog) = 3
    /\ Len(batchLog[3].ids) < BatchSize
    /\ batchLog[2].raised # "none"

\* C9 (as claimed): the delay is executed once after every batch, failed or
\* not.
C9_DelayAfterEveryBatch ==
    /\ sleeps = Len(batchLog)
    /\ \A k \in 1..Len(batchLog) : batchLog[k].slept

\* C10: every search call asks for min(50, max_results - identifiers so far),
\* a number in 1..50, and passes the cursor of the page before it, none on
\* the first call; with max_results <= 0 there is no call and the result is
\* empty.
C10_RequestSizeAndCursor ==
    /\ [][searchCalls' # searchCalls
          => /\ lastReq'.size =
                  Min(SearchPageSize, max_results - Len(video_ids))
             /\ lastReq'.size \in 1..SearchPageSize
             /\ lastReq'.token = lastResp.cursor
             /\ searchCalls = 0 => lastReq'.token = NoToken]_vars
    /\ [](max_results <= 0 => (searchCalls = 0 /\ searchRet = <<>>))

\* C10 witness: a later call that passes a cursor and asks for fewer than
\* 50 identifiers.
C10_Witness ==
    /\ searchCalls >= 2
    /\ lastReq.token # NoToken
    /\ lastReq.size < SearchPageSize
    /\ lastReq.size > 1

====
